---- MODULE Spec2Model ----
(***************************************************************************)
(* Model of src/Grafos.py (class Graph): a labelled graph kept in two      *)
(* representations, an adjacency matrix and an adjacency list, with the    *)
(* traversal algorithms BFS, DFS (iterative and recursive), Dijkstra and   *)
(* the three-point route built on Dijkstra.                                *)
(*                                                                         *)
(* Python lists are sequences; a Python index i is position i + 1 here.    *)
(* Python dicts are functions; the iteration order of a dict is not        *)
(* modelled (no operation modelled here depends on it).                    *)
(* An optional result (a value or None) is a sequence of length 0 or 1.    *)
(***************************************************************************)
EXTENDS Integers, Sequences, FiniteSets, TLC

\* ---------------------------------------------------------------- bounds
MaxLabel == 3        \* labels passed to the API are 1..MaxLabel (Spec)
MaxQLabel == 5       \* labels passed to the API are 1..MaxQLabel (SpecQ, SpecQDeep)
MaxWeight == 1       \* weights passed to the mutation API are 0..MaxWeight
MaxOps == 4          \* API calls in one behaviour from a new graph (Spec)
MaxQOps == 1         \* API calls in one behaviour from the scenario graph (SpecQ)
MaxDeepOps == 2      \* API calls in one behaviour from the scenario graph (SpecQDeep)
MaxNodos == 2        \* Nodo objects (SpecNodo)
MaxValor == 2        \* values given to set_valor are 1..MaxValor (SpecNodo)
MaxNodoOps == 2      \* calls on Nodo objects in one behaviour (SpecNodo)

Labels == 1..MaxLabel
QLabels == 1..MaxQLabel
Weights == 0..MaxWeight

\* target_node=None of bfs/dfs/dfs_recursive/dijkstra; labels are positive,
\* so None is not a label (Python tests the target by truthiness).
None == 0
\* float('inf') of dijkstra: a value no sum of weights can take.
INF == 0 - 1

Absent == <<>>
Some(x) == <<x>>

\* ---------------------------------------------------------------- helpers
Range(s) == {s[i] : i \in 1..Len(s)}

\* list.pop(p - 1): the sequence without its position p (Python index p - 1)
PopAt(s, p) == [k \in 1..(Len(s) - 1) |-> IF k < p THEN s[k] ELSE s[k + 1]]

\* [neighbor for neighbor in s if neighbor[0] != name]
RECURSIVE WithoutNeighbor(_, _)
WithoutNeighbor(s, name) ==
    IF s = <<>> THEN <<>>
    ELSE IF Head(s)[1] # name THEN <<Head(s)>> \o WithoutNeighbor(Tail(s), name)
         ELSE WithoutNeighbor(Tail(s), name)

\* s[::-1]
Reverse(s) == [k \in 1..Len(s) |-> s[Len(s) + 1 - k]]

\* ---------------------------------------------------------------- state
VARIABLES
    nodes,              \* self._nodes: label -> index
    nodes_list,         \* self._nodes_list: index -> label
    adjacency_matrix,   \* self._adjacency_matrix
    adjacency_list,     \* self._adjacency_list: label -> <<neighbor, weight>>*
    directed,           \* self._directed
    node_count,         \* self._node_count
    last,               \* the last API call, its arguments and its result
    nops,               \* number of API calls left in this behaviour
    run,                \* the search call in progress, loop by loop
    objects,            \* the Nodo objects (ArbolBinario/Nodo.py), by identity
    last_nodo           \* the last call on a Nodo, its argument and outcome

graphVars == <<nodes, nodes_list, adjacency_matrix, adjacency_list, directed, node_count>>
nodoVars == <<objects, last_nodo>>
vars == <<nodes, nodes_list, adjacency_matrix, adjacency_list, directed, node_count, last, nops,
          run, objects, last_nodo>>

\* The object, as a record of its fields.
Self == [nodes |-> nodes, nodes_list |-> nodes_list,
         adjacency_matrix |-> adjacency_matrix, adjacency_list |-> adjacency_list,
         directed |-> directed, node_count |-> node_count]

\* Graph.__init__
Graph(d) == [nodes |-> <<>>, nodes_list |-> <<>>, adjacency_matrix |-> <<>>,
             adjacency_list |-> <<>>, directed |-> d, node_count |-> 0]

\* ---------------------------------------------------------------- nodes
_expand_adjacency_matrix(g) ==
    [g EXCEPT !.adjacency_matrix =
        [i \in 1..Len(@) |-> Append(@[i], 0)]
            \o <<[j \in 1..g.node_count |-> 0]>>]

\* Fault: a label that exists has its neighbor list emptied before the
\* call reports false.
add_node_reset(g, node_name) ==
    IF node_name \in DOMAIN g.nodes
    THEN [g |-> [g EXCEPT !.adjacency_list[node_name] = <<>>], ret |-> FALSE]
    ELSE
        LET g1 == [g EXCEPT !.nodes = [n \in DOMAIN @ \cup {node_name} |->
                                          IF n = node_name THEN g.node_count ELSE @[n]],
                            !.nodes_list = Append(@, node_name),
                            !.node_count = @ + 1]
            g2 == _expand_adjacency_matrix(g1)
            g3 == [g2 EXCEPT !.adjacency_list =
                      [n \in DOMAIN @ \cup {node_name} |->
                          IF n = node_name THEN <<>> ELSE @[n]]]
        IN [g |-> g3, ret |-> TRUE]

add_node(g, node_name) ==
    IF node_name \in DOMAIN g.nodes THEN [g |-> g, ret |-> FALSE]
    ELSE
        LET g1 == [g EXCEPT !.nodes = [n \in DOMAIN @ \cup {node_name} |->
                                          IF n = node_name THEN g.node_count ELSE @[n]],
                            !.nodes_list = Append(@, node_name),
                            !.node_count = @ + 1]
            g2 == _expand_adjacency_matrix(g1)
            g3 == [g2 EXCEPT !.adjacency_list =
                      [n \in DOMAIN @ \cup {node_name} |->
                          IF n = node_name THEN <<>> ELSE @[n]]]
        IN [g |-> g3, ret |-> TRUE]

\* The dict after "for i, node in enumerate(lst): d[node] = i".
Reindexed(d, lst) ==
    [n \in DOMAIN d \cup Range(lst) |->
        IF n \in Range(lst)
        THEN (CHOOSE i \in 1..Len(lst) :
                 lst[i] = n /\ \A k \in (i + 1)..Len(lst) : lst[k] # n) - 1
        ELSE d[n]]

\* Fault: the remaining labels keep their old indices.
_remove_from_dictionaries_noreindex(g, node_name, node_index) ==
    [g EXCEPT !.nodes = [n \in DOMAIN @ \ {node_name} |-> @[n]],
              !.nodes_list = PopAt(@, node_index)]

_remove_from_dictionaries(g, node_name, node_index) ==
    LET lst == PopAt(g.nodes_list, node_index)
        d == [n \in DOMAIN g.nodes \ {node_name} |-> g.nodes[n]]
    IN [g EXCEPT !.nodes = Reindexed(d, lst), !.nodes_list = lst]

\* Fault: the row at node_index is dropped, and the last column of each row.
_remove_from_adjacency_matrix_lastcol(g, node_index) ==
    LET m == PopAt(g.adjacency_matrix, node_index)
    IN [g EXCEPT !.adjacency_matrix = [i \in 1..Len(m) |-> PopAt(m[i], Len(m[i]))]]

_remove_from_adjacency_matrix(g, node_index) ==
    LET m == PopAt(g.adjacency_matrix, node_index)
    IN [g EXCEPT !.adjacency_matrix = [i \in 1..Len(m) |-> PopAt(m[i], node_index)]]

\* Fault: only the node's own list is dropped; entries naming it stay.
_remove_from_adjacency_list_keyonly(g, node_name) ==
    [g EXCEPT !.adjacency_list = [n \in DOMAIN @ \ {node_name} |-> @[n]]]

_remove_from_adjacency_list(g, node_name) ==
    [g EXCEPT !.adjacency_list =
        [n \in DOMAIN @ \ {node_name} |-> WithoutNeighbor(@[n], node_name)]]

remove_node(g, node_name) ==
    IF node_name \notin DOMAIN g.nodes THEN [g |-> g, ret |-> FALSE]
    ELSE
        LET node_index == g.nodes[node_name]
            g1 == _remove_from_dictionaries(g, node_name, node_index + 1)
            g2 == _remove_from_adjacency_matrix(g1, node_index + 1)
            g3 == _remove_from_adjacency_list(g2, node_name)
        IN [g |-> [g3 EXCEPT !.node_count = @ - 1], ret |-> TRUE]

\* ---------------------------------------------------------------- edges
_validate_nodes(g, node1, node2) ==
    node1 \in DOMAIN g.nodes /\ node2 \in DOMAIN g.nodes

\* m[idx1][idx2] = weight, on Python indices
SetCell(m, idx1, idx2, weight) == [m EXCEPT ![idx1 + 1][idx2 + 1] = weight]

\* Fault: the symmetric cell of an undirected graph is not written.
_update_adjacency_matrix_oneway(g, idx1, idx2, weight) ==
    [g EXCEPT !.adjacency_matrix = SetCell(@, idx1, idx2, weight)]

_update_adjacency_matrix(g, idx1, idx2, weight) ==
    LET m1 == SetCell(g.adjacency_matrix, idx1, idx2, weight)
    IN [g EXCEPT !.adjacency_matrix =
           IF ~g.directed THEN SetCell(m1, idx2, idx1, weight) ELSE m1]

_has_edge_in_list(g, node1, node2) ==
    \E i \in 1..Len(g.adjacency_list[node1]) : g.adjacency_list[node1][i][1] = node2

\* Fault: the entry is appended whether or not the pair is already listed.
_update_adjacency_list_append(g, node1, node2, weight) ==
    LET g1 == [g EXCEPT !.adjacency_list[node1] = Append(@, <<node2, weight>>)]
    IN IF ~g1.directed
       THEN [g1 EXCEPT !.adjacency_list[node2] = Append(@, <<node1, weight>>)]
       ELSE g1

\* Fault: an entry that is already listed takes the new weight.
_update_adjacency_list_lastwins(g, node1, node2, weight) ==
    LET put(lst, n) ==
            IF \E i \in 1..Len(lst) : lst[i][1] = n
            THEN [k \in 1..Len(lst) |-> IF lst[k][1] = n THEN <<n, weight>> ELSE lst[k]]
            ELSE Append(lst, <<n, weight>>)
        g1 == [g EXCEPT !.adjacency_list[node1] = put(@, node2)]
    IN IF ~g1.directed
       THEN [g1 EXCEPT !.adjacency_list[node2] = put(@, node1)]
       ELSE g1

_update_adjacency_list(g, node1, node2, weight) ==
    LET g1 == IF ~_has_edge_in_list(g, node1, node2)
              THEN [g EXCEPT !.adjacency_list[node1] = Append(@, <<node2, weight>>)]
              ELSE g
    IN IF ~g1.directed /\ ~_has_edge_in_list(g1, node2, node1)
       THEN [g1 EXCEPT !.adjacency_list[node2] = Append(@, <<node1, weight>>)]
       ELSE g1

add_edge(g, node1, node2, weight) ==
    IF ~_validate_nodes(g, node1, node2) THEN [g |-> g, ret |-> FALSE]
    ELSE
        LET idx1 == g.nodes[node1]
            idx2 == g.nodes[node2]
            g1 == _update_adjacency_matrix(g, idx1, idx2, weight)
            g2 == _update_adjacency_list(g1, node1, node2, weight)
        IN [g |-> g2, ret |-> TRUE]

\* Fault: the reverse entry of an undirected edge is kept.
_remove_from_adjacency_list_edge_oneway(g, node1, node2) ==
    [g EXCEPT !.adjacency_list[node1] = WithoutNeighbor(@, node2)]

_remove_from_adjacency_list_edge(g, node1, node2) ==
    LET g1 == [g EXCEPT !.adjacency_list[node1] = WithoutNeighbor(@, node2)]
    IN IF ~g1.directed
       THEN [g1 EXCEPT !.adjacency_list[node2] = WithoutNeighbor(@, node1)]
       ELSE g1

remove_edge(g, node1, node2) ==
    IF ~_validate_nodes(g, node1, node2) THEN [g |-> g, ret |-> FALSE]
    ELSE
        LET idx1 == g.nodes[node1]
            idx2 == g.nodes[node2]
            g1 == _update_adjacency_matrix(g, idx1, idx2, 0)
            g2 == _remove_from_adjacency_list_edge(g1, node1, node2)
        IN [g |-> g2, ret |-> TRUE]

\* lines 216-218: the triples node1 contributes, in the order of its list
EdgesOf(g, node1) ==
    LET kept == SelectSeq(g.adjacency_list[node1],
                          LAMBDA e : g.directed \/ node1 < e[1])
    IN [k \in 1..Len(kept) |-> <<node1, kept[k][1], kept[k][2]>>]

\* line 215: the keys of _adjacency_list from position i on, in insertion
\* order, which is the order of nodes_list
RECURSIVE EdgesFrom(_, _)
EdgesFrom(g, i) ==
    IF i > Len(g.nodes_list) THEN <<>>
    ELSE EdgesOf(g, g.nodes_list[i]) \o EdgesFrom(g, i + 1)

get_edges(g) == EdgesFrom(g, 1)

\* ---------------------------------------------------------------- getters
has_edge(g, node1, node2) ==
    IF ~_validate_nodes(g, node1, node2) THEN FALSE
    ELSE g.adjacency_matrix[g.nodes[node1] + 1][g.nodes[node2] + 1] # 0

get_edge_weight(g, node1, node2) ==
    IF ~_validate_nodes(g, node1, node2) THEN Absent
    ELSE Some(g.adjacency_matrix[g.nodes[node1] + 1][g.nodes[node2] + 1])

get_neighbors(g, node_name) ==
    IF node_name \notin DOMAIN g.adjacency_list THEN <<>>
    ELSE g.adjacency_list[node_name]

get_degree(g, node_name) ==
    IF node_name \notin DOMAIN g.adjacency_list THEN 0
    ELSE Len(g.adjacency_list[node_name])

\* self._adjacency_list.get(node, [])
Neighbors(g, node) ==
    IF node \in DOMAIN g.adjacency_list THEN g.adjacency_list[node] ELSE <<>>

\* ---------------------------------------------------------------- setters
\* The first position of s at or after k whose neighbor is node2, 0 if none.
RECURSIVE FirstEntry(_, _, _)
FirstEntry(s, node2, k) ==
    IF k > Len(s) THEN 0
    ELSE IF s[k][1] = node2 THEN k
    ELSE FirstEntry(s, node2, k + 1)

_update_adjacency_list_weight(g, node1, node2, weight) ==
    LET i == FirstEntry(g.adjacency_list[node1], node2, 1)
    IN IF i = 0 THEN g
       ELSE [g EXCEPT !.adjacency_list[node1][i] = <<node2, weight>>]

set_edge_weight(g, node1, node2, weight) ==
    IF ~_validate_nodes(g, node1, node2) THEN [g |-> g, ret |-> FALSE]
    ELSE
        LET idx1 == g.nodes[node1]
            idx2 == g.nodes[node2]
            m1 == SetCell(g.adjacency_matrix, idx1, idx2, weight)
            g1 == [g EXCEPT !.adjacency_matrix =
                      IF ~g.directed THEN SetCell(m1, idx2, idx1, weight) ELSE m1]
            g2 == _update_adjacency_list_weight(g1, node1, node2, weight)
            g3 == IF ~g2.directed
                  THEN _update_adjacency_list_weight(g2, node2, node1, weight)
                  ELSE g2
        IN [g |-> g3, ret |-> TRUE]

\* Fault: a zero cell is appended like any other.
RECURSIVE RowEntries_all(_, _, _)
RowEntries_all(g, i, j) ==
    IF j > Len(g.nodes_list) THEN <<>>
    ELSE <<<<g.nodes_list[j], g.adjacency_matrix[i][j]>>>> \o RowEntries_all(g, i, j + 1)

\* The entries appended to node1's list by the inner loop over j >= k.
RECURSIVE RowEntries(_, _, _)
RowEntries(g, i, j) ==
    IF j > Len(g.nodes_list) THEN <<>>
    ELSE LET weight == g.adjacency_matrix[i][j]
         IN (IF weight # 0 THEN <<<<g.nodes_list[j], weight>>>> ELSE <<>>)
                \o RowEntries(g, i, j + 1)

\* The dict after "for i, node1 in enumerate(nodes_list)" run from position i:
\* a label occurring at several positions would collect the entries of each.
RECURSIVE RebuildFrom(_, _, _)
RebuildFrom(g, al, i) ==
    IF i > Len(g.nodes_list) THEN al
    ELSE RebuildFrom(g, [al EXCEPT ![g.nodes_list[i]] = @ \o RowEntries(g, i, 1)], i + 1)

_rebuild_representations(g) ==
    [g EXCEPT !.adjacency_list =
        RebuildFrom(g, [n \in Range(g.nodes_list) |-> <<>>], 1)]

set_directed(g, d) ==
    _rebuild_representations([g EXCEPT !.directed = d])

\* ---------------------------------------------------------------- search
\* "if target_node": a target was given
Given(target_node) == target_node # None

\* Fault: the walk stops at the node whose parent is None and leaves it out.
RECURSIVE WalkBack_nostart(_, _)
WalkBack_nostart(parent, current) ==
    IF parent[current] = None THEN <<>>
    ELSE <<current>> \o WalkBack_nostart(parent, parent[current])

\* path = []; while current is not None: path.append(current); current = parent[current]
RECURSIVE WalkBack(_, _)
WalkBack(parent, current) ==
    IF current = None THEN <<>>
    ELSE <<current>> \o WalkBack(parent, parent[current])

\* d[k] = v on a dict
Put(d, k, v) == [x \in DOMAIN d \cup {k} |-> IF x = k THEN v ELSE d[x]]

\* bfs, lines 396-400: the loop over the neighbors of current, from position k
RECURSIVE BfsNeighbors(_, _, _, _)
BfsNeighbors(nbrs, k, current, st) ==
    IF k > Len(nbrs) THEN st
    ELSE LET neighbor == nbrs[k][1]
         IN IF neighbor \notin st.visited
            THEN BfsNeighbors(nbrs, k + 1, current,
                     [st EXCEPT !.visited = @ \cup {neighbor},
                                !.parent = Put(@, neighbor, current),
                                !.queue = Append(@, neighbor)])
            ELSE BfsNeighbors(nbrs, k + 1, current, st)

\* Fault: the frontier is popped from its end (a stack instead of a queue).
RECURSIVE BfsLoop_lifo(_, _, _)
BfsLoop_lifo(g, target_node, st) ==
    IF st.queue = <<>>
    THEN IF ~Given(target_node) THEN Some(st.visit_order) ELSE Absent
    ELSE LET current == st.queue[Len(st.queue)]
             st1 == [st EXCEPT !.queue = SubSeq(@, 1, Len(@) - 1),
                               !.visit_order = Append(@, current)]
         IN IF Given(target_node) /\ current = target_node
            THEN Some(Reverse(WalkBack(st1.parent, current)))
            ELSE BfsLoop_lifo(g, target_node,
                              BfsNeighbors(Neighbors(g, current), 1, current, st1))

\* bfs, lines 383-402: the while loop
RECURSIVE BfsLoop(_, _, _)
BfsLoop(g, target_node, st) ==
    IF st.queue = <<>>
    THEN IF ~Given(target_node) THEN Some(st.visit_order) ELSE Absent
    ELSE LET current == Head(st.queue)
             st1 == [st EXCEPT !.queue = Tail(@), !.visit_order = Append(@, current)]
         IN IF Given(target_node) /\ current = target_node
            THEN Some(Reverse(WalkBack(st1.parent, current)))
            ELSE BfsLoop(g, target_node,
                         BfsNeighbors(Neighbors(g, current), 1, current, st1))

\* Fault: an unknown start yields an empty list whether or not a target is
\* given.
bfs_emptyunknown(g, start_node, target_node) ==
    IF start_node \notin DOMAIN g.nodes THEN Some(<<>>)
    ELSE IF Given(target_node) /\ target_node \notin DOMAIN g.nodes THEN Absent
    ELSE BfsLoop(g, target_node,
                 [queue |-> <<start_node>>, visited |-> {start_node},
                  parent |-> Put(<<>>, start_node, None), visit_order |-> <<>>])

bfs(g, start_node, target_node) ==
    IF start_node \notin DOMAIN g.nodes
    THEN IF Given(target_node) THEN Absent ELSE Some(<<>>)
    ELSE IF Given(target_node) /\ target_node \notin DOMAIN g.nodes THEN Absent
    ELSE BfsLoop(g, target_node,
                 [queue |-> <<start_node>>, visited |-> {start_node},
                  parent |-> Put(<<>>, start_node, None), visit_order |-> <<>>])

\* dfs, lines 445-449: the loop over reversed(neighbors), position k counted
\* from the end of the list
RECURSIVE DfsNeighbors(_, _, _, _)
DfsNeighbors(nbrs, k, current, st) ==
    IF k < 1 THEN st
    ELSE LET neighbor == nbrs[k][1]
         IN IF neighbor \notin st.visited
            THEN DfsNeighbors(nbrs, k - 1, current,
                     [st EXCEPT !.stack = Append(@, neighbor),
                                !.parent = IF neighbor \notin DOMAIN @
                                           THEN Put(@, neighbor, current) ELSE @])
            ELSE DfsNeighbors(nbrs, k - 1, current, st)

\* dfs, lines 428-451: the while loop; the top of the stack is its last element
RECURSIVE DfsLoop(_, _, _)
DfsLoop(g, target_node, st) ==
    IF st.stack = <<>>
    THEN IF ~Given(target_node) THEN Some(st.visit_order) ELSE Absent
    ELSE LET current == st.stack[Len(st.stack)]
             st1 == [st EXCEPT !.stack = SubSeq(@, 1, Len(@) - 1)]
         IN IF current \in st1.visited THEN DfsLoop(g, target_node, st1)
            ELSE LET st2 == [st1 EXCEPT !.visited = @ \cup {current},
                                        !.visit_order = Append(@, current)]
                     nbrs == Neighbors(g, current)
                 IN IF Given(target_node) /\ current = target_node
                    THEN Some(Reverse(WalkBack(st2.parent, current)))
                    ELSE DfsLoop(g, target_node,
                                 DfsNeighbors(nbrs, Len(nbrs), current, st2))

dfs(g, start_node, target_node) ==
    IF start_node \notin DOMAIN g.nodes
    THEN IF Given(target_node) THEN Absent ELSE Some(<<>>)
    ELSE IF Given(target_node) /\ target_node \notin DOMAIN g.nodes THEN Absent
    ELSE DfsLoop(g, target_node,
                 [stack |-> <<start_node>>, visited |-> {},
                  parent |-> Put(<<>>, start_node, None), visit_order |-> <<>>])

\* dfs_recursive._dfs_recursive, lines 474-496.  st holds the closure's
\* visited, visit_order and path_found (None and [] are both the empty
\* sequence: the code turns None into [] before every use); the result adds
\* the returned boolean as found.
RECURSIVE _dfs_recursive(_, _, _, _)
RECURSIVE DfsRecNeighbors(_, _, _, _, _)
DfsRecNeighbors(g, target_node, nbrs, k, st) ==
    IF k > Len(nbrs) THEN [st EXCEPT !.found = FALSE]
    ELSE LET neighbor == nbrs[k][1]
         IN IF neighbor \notin st.visited
            THEN LET r == _dfs_recursive(g, target_node, neighbor, st)
                 IN IF r.found
                    THEN [r EXCEPT !.path_found = Append(@, neighbor)]
                    ELSE DfsRecNeighbors(g, target_node, nbrs, k + 1, r)
            ELSE DfsRecNeighbors(g, target_node, nbrs, k + 1, st)

_dfs_recursive(g, target_node, current, st) ==
    IF current \in st.visited THEN [st EXCEPT !.found = FALSE]
    ELSE LET st1 == [st EXCEPT !.visited = @ \cup {current},
                               !.visit_order = Append(@, current)]
         IN IF Given(target_node) /\ current = target_node
            THEN [st1 EXCEPT !.found = TRUE]
            ELSE DfsRecNeighbors(g, target_node, Neighbors(g, current), 1, st1)

dfs_recursive(g, start_node, target_node) ==
    IF start_node \notin DOMAIN g.nodes
    THEN IF Given(target_node) THEN Absent ELSE Some(<<>>)
    ELSE IF Given(target_node) /\ target_node \notin DOMAIN g.nodes THEN Absent
    ELSE LET r == _dfs_recursive(g, target_node, start_node,
                      [visited |-> {}, visit_order |-> <<>>, path_found |-> <<>>,
                       found |-> FALSE])
         IN IF Given(target_node)
            THEN IF r.found THEN Some(Reverse(Append(r.path_found, start_node)))
                 ELSE Absent
            ELSE Some(r.visit_order)

\* ---------------------------------------------------------------- dijkstra
\* x < y and x > y on numbers and float('inf'); x is always finite here
Less(x, y) == y = INF \/ x < y
Greater(x, y) == y # INF /\ x > y

\* tuple order of (distance, node) heap entries
EntryLE(e, f) == e[1] < f[1] \/ (e[1] = f[1] /\ e[2] <= f[2])

\* heapq.heappop: the position of the least entry (equal entries are
\* interchangeable, so the first of them stands for the one popped)
MinPos(pq) ==
    CHOOSE i \in 1..Len(pq) :
        /\ \A j \in 1..Len(pq) : EntryLE(pq[i], pq[j])
        /\ \A j \in 1..(i - 1) : pq[j] # pq[i]

\* Fault: the tentative distance is the edge weight alone, current_distance
\* is not added.
RECURSIVE DijkstraNeighbors_edgeonly(_, _, _, _, _)
DijkstraNeighbors_edgeonly(nbrs, k, current_node, current_distance, st) ==
    IF k > Len(nbrs) THEN st
    ELSE LET neighbor == nbrs[k][1]
             distance == nbrs[k][2]
         IN IF Less(distance, st.distances[neighbor])
            THEN DijkstraNeighbors_edgeonly(nbrs, k + 1, current_node, current_distance,
                     [st EXCEPT !.distances[neighbor] = distance,
                                !.previous[neighbor] = current_node,
                                !.priority_queue = Append(@, <<distance, neighbor>>)])
            ELSE DijkstraNeighbors_edgeonly(nbrs, k + 1, current_node, current_distance, st)

\* dijkstra, lines 552-559: the loop over the neighbors of current_node
RECURSIVE DijkstraNeighbors(_, _, _, _, _)
DijkstraNeighbors(nbrs, k, current_node, current_distance, st) ==
    IF k > Len(nbrs) THEN st
    ELSE LET neighbor == nbrs[k][1]
             weight == nbrs[k][2]
             distance == current_distance + weight
         IN IF Less(distance, st.distances[neighbor])
            THEN DijkstraNeighbors(nbrs, k + 1, current_node, current_distance,
                     [st EXCEPT !.distances[neighbor] = distance,
                                !.previous[neighbor] = current_node,
                                !.priority_queue = Append(@, <<distance, neighbor>>)])
            ELSE DijkstraNeighbors(nbrs, k + 1, current_node, current_distance, st)

\* dijkstra, lines 536-561: the while loop
RECURSIVE DijkstraLoop(_, _, _)
DijkstraLoop(g, target_node, st) ==
    IF st.priority_queue = <<>>
    THEN IF ~Given(target_node) THEN Some(st.distances) ELSE Absent
    ELSE LET p == MinPos(st.priority_queue)
             current_distance == st.priority_queue[p][1]
             current_node == st.priority_queue[p][2]
             st1 == [st EXCEPT !.priority_queue = PopAt(@, p)]
         IN IF Given(target_node) /\ current_node = target_node
            THEN Some(Reverse(WalkBack(st1.previous, current_node)))
            ELSE IF Greater(current_distance, st1.distances[current_node])
            THEN DijkstraLoop(g, target_node, st1)
            ELSE DijkstraLoop(g, target_node,
                     DijkstraNeighbors(Neighbors(g, current_node), 1,
                                       current_node, current_distance, st1))

dijkstra(g, start_node, target_node) ==
    IF start_node \notin DOMAIN g.nodes
    THEN IF Given(target_node) THEN Absent ELSE Some(<<>>)
    ELSE DijkstraLoop(g, target_node,
             [distances |-> [n \in Range(g.nodes_list) |->
                                IF n = start_node THEN 0 ELSE INF],
              priority_queue |-> <<<<0, start_node>>>>,
              previous |-> [n \in Range(g.nodes_list) |-> None]])

\* ---------------------------------------------------------------- route
\* lines 603-607: the sum of the matrix weights along full_path from position i
RECURSIVE TotalDistance(_, _, _)
TotalDistance(g, full_path, i) ==
    IF i >= Len(full_path) THEN 0
    ELSE LET weight == get_edge_weight(g, full_path[i], full_path[i + 1])
         IN (IF weight # Absent THEN weight[1] ELSE 0)
                + TotalDistance(g, full_path, i + 1)

\* "if not path": None or an empty list
Falsy(path) == path = Absent \/ path[1] = <<>>

\* Fault: the labels are not validated.
FirstMissing_unvalidated(g, three) == None

\* lines 576-581: the first of the three labels that is not a node, None if all are
FirstMissing(g, three) ==
    IF \A i \in 1..3 : three[i] \in DOMAIN g.nodes THEN None
    ELSE three[CHOOSE i \in 1..3 :
                  /\ three[i] \notin DOMAIN g.nodes
                  /\ \A j \in 1..(i - 1) : three[j] \in DOMAIN g.nodes]

\* Fault: the second leg is appended whole.
FullPath_whole(path_origin_to_start, path_start_to_end) ==
    path_origin_to_start \o path_start_to_end

\* line 600: path_origin_to_start + path_start_to_end[1:]
FullPath(path_origin_to_start, path_start_to_end) ==
    path_origin_to_start \o Tail(path_start_to_end)

shortest_path_three_points(g, origin, start, end) ==
    LET missing == FirstMissing(g, <<origin, start, end>>)
        path_origin_to_start == dijkstra(g, origin, start)
        path_start_to_end == dijkstra(g, start, end)
        full_path == FullPath(path_origin_to_start[1], path_start_to_end[1])
    IN IF missing # None
       THEN [success |-> FALSE, error |-> <<"no existe", missing>>]
       ELSE IF Falsy(path_origin_to_start)
       THEN [success |-> FALSE, error |-> <<"no hay camino", origin, start>>]
       ELSE IF Falsy(path_start_to_end)
       THEN [success |-> FALSE, error |-> <<"no hay camino", start, end>>]
       ELSE [success |-> TRUE,
             full_path |-> full_path,
             path_origin_to_start |-> path_origin_to_start[1],
             path_start_to_end |-> path_start_to_end[1],
             total_distance |-> TotalDistance(g, full_path, 1)]

\* ---------------------------------------------------------------- actions
\* last: the call (op and its arguments a, b, c, w), its result ret and three
\* observations of the graph as it was when the call was made, for a
\* mutation whose first argument is a label: deg = len of a's neighbor
\* list, refs = number of entries naming a in the other labels' lists,
\* idx = a's index (deg = refs = 0 and idx = -1 when a is not a node); for
\* set_directed, w = 1 for True and 0 for False and deg = the number of
\* entries of all lists.
\* A value passed as a child: None, a Nodo object or a value of another
\* type, as a pair of its type and an integer that tells values apart.
NoneRef == <<"NoneType", 0>>

\* last_nodo before any call on a Nodo
NoNodoCall == [op |-> "init", self |-> 0, nodo |-> NoneRef, raised |-> FALSE]

\* No Nodo has been constructed.
NoNodo ==
    /\ objects = <<>>
    /\ last_nodo = NoNodoCall

\* run when no search call is in progress
Idle ==
    [pc |-> "idle", op |-> "init", a |-> None, b |-> None, c |-> None, leg |-> 0,
     source |-> None, target |-> None, st |-> [visit_order |-> <<>>],
     path |-> <<>>, current |-> None, first |-> <<>>, result |-> <<>>,
     routed |-> [success |-> FALSE, error |-> <<>>]]

NoCall == [op |-> "init", a |-> None, b |-> None, c |-> None, w |-> 0,
           deg |-> 0, refs |-> 0, idx |-> 0 - 1, ret |-> FALSE]

Mentions(g, n, a) == {i \in 1..Len(g.adjacency_list[n]) : g.adjacency_list[n][i][1] = a}

RECURSIVE SumOver(_, _)
SumOver(S, f) ==
    IF S = {} THEN 0
    ELSE LET x == CHOOSE y \in S : TRUE IN f[x] + SumOver(S \ {x}, f)

\* The number of entries of all neighbor lists.
Entries == SumOver(DOMAIN adjacency_list,
                   [n \in DOMAIN adjacency_list |-> Len(adjacency_list[n])])

Observed(call) ==
    LET a == call.a
    IN IF a \in DOMAIN nodes
       THEN [call EXCEPT !.deg = Len(Neighbors(Self, a)),
                         !.idx = nodes[a],
                         !.refs = SumOver(DOMAIN adjacency_list \ {a},
                                      [n \in DOMAIN adjacency_list \ {a} |->
                                          Cardinality(Mentions(Self, n, a))])]
       ELSE call

Install(g) ==
    /\ nodes' = g.nodes
    /\ nodes_list' = g.nodes_list
    /\ adjacency_matrix' = g.adjacency_matrix
    /\ adjacency_list' = g.adjacency_list
    /\ directed' = g.directed
    /\ node_count' = g.node_count

Called(r, call) ==
    /\ nops' = nops - 1
    /\ Install(r.g)
    /\ last' = [Observed(call) EXCEPT !.ret = r.ret]
    /\ UNCHANGED <<run, nodoVars>>

AddNode(L) ==
    /\ nops > 0
    /\ \E n \in L :
           Called(add_node(Self, n), [NoCall EXCEPT !.op = "add_node", !.a = n])

RemoveNode(L) ==
    /\ nops > 0
    /\ \E n \in L :
           Called(remove_node(Self, n),
                  [NoCall EXCEPT !.op = "remove_node", !.a = n])

AddEdge(L) ==
    /\ nops > 0
    /\ \E n1 \in L, n2 \in L, wt \in Weights :
           Called(add_edge(Self, n1, n2, wt),
                  [NoCall EXCEPT !.op = "add_edge", !.a = n1, !.b = n2, !.w = wt])

RemoveEdge(L) ==
    /\ nops > 0
    /\ \E n1 \in L, n2 \in L :
           Called(remove_edge(Self, n1, n2),
                  [NoCall EXCEPT !.op = "remove_edge", !.a = n1, !.b = n2])

SetEdgeWeight(L) ==
    /\ nops > 0
    /\ \E n1 \in L, n2 \in L, wt \in Weights :
           Called(set_edge_weight(Self, n1, n2, wt),
                  [NoCall EXCEPT !.op = "set_edge_weight", !.a = n1, !.b = n2, !.w = wt])

SetDirected ==
    /\ nops > 0
    /\ \E d \in BOOLEAN :
           Called([g |-> set_directed(Self, d), ret |-> TRUE],
                  [NoCall EXCEPT !.op = "set_directed", !.w = IF d THEN 1 ELSE 0,
                                 !.deg = Entries])

\* The object is in state g.
Is(g) ==
    /\ nodes = g.nodes
    /\ nodes_list = g.nodes_list
    /\ adjacency_matrix = g.adjacency_matrix
    /\ adjacency_list = g.adjacency_list
    /\ directed = g.directed
    /\ node_count = g.node_count

Init ==
    /\ \E d \in BOOLEAN : Is(Graph(d))
    /\ last = NoCall
    /\ nops = MaxOps
    /\ run = Idle
    /\ NoNodo

Next ==
    \/ AddNode(Labels)
    \/ RemoveNode(Labels)
    \/ AddEdge(Labels)
    \/ RemoveEdge(Labels)
    \/ SetEdgeWeight(Labels)
    \/ SetDirected

Spec == Init /\ [][Next]_vars

\* ---------------------------------------------------------------- queries
\* A query leaves the graph as it is and records its result.
Asked(call, result) ==
    /\ nops' = nops - 1
    /\ UNCHANGED graphVars
    /\ last' = [call EXCEPT !.ret = result]
    /\ UNCHANGED <<run, nodoVars>>

Bfs(L) ==
    /\ nops > 0
    /\ \E s \in L, t \in L \cup {None} :
           Asked([NoCall EXCEPT !.op = "bfs", !.a = s, !.b = t], bfs(Self, s, t))

Dfs(L) ==
    /\ nops > 0
    /\ \E s \in L, t \in L \cup {None} :
           Asked([NoCall EXCEPT !.op = "dfs", !.a = s, !.b = t], dfs(Self, s, t))

DfsRecursive(L) ==
    /\ nops > 0
    /\ \E s \in L, t \in L \cup {None} :
           Asked([NoCall EXCEPT !.op = "dfs_recursive", !.a = s, !.b = t],
                 dfs_recursive(Self, s, t))

Dijkstra(L) ==
    /\ nops > 0
    /\ \E s \in L, t \in L \cup {None} :
           Asked([NoCall EXCEPT !.op = "dijkstra", !.a = s, !.b = t],
                 dijkstra(Self, s, t))

\* HomeController.calculate_delivery_route -> Graph.shortest_path_three_points
Route(L) ==
    /\ nops > 0
    /\ \E o \in L, s \in L, e \in L :
           Asked([NoCall EXCEPT !.op = "route", !.a = o, !.b = s, !.c = e],
                 shortest_path_three_points(Self, o, s, e))

HasEdge(L) ==
    /\ nops > 0
    /\ \E n1 \in L, n2 \in L :
           Asked([NoCall EXCEPT !.op = "has_edge", !.a = n1, !.b = n2],
                 has_edge(Self, n1, n2))

GetEdgeWeight(L) ==
    /\ nops > 0
    /\ \E n1 \in L, n2 \in L :
           Asked([NoCall EXCEPT !.op = "get_edge_weight", !.a = n1, !.b = n2],
                 get_edge_weight(Self, n1, n2))

GetNeighbors(L) ==
    /\ nops > 0
    /\ \E n \in L :
           Asked([NoCall EXCEPT !.op = "get_neighbors", !.a = n],
                 get_neighbors(Self, n))

GetDegree(L) ==
    /\ nops > 0
    /\ \E n \in L :
           Asked([NoCall EXCEPT !.op = "get_degree", !.a = n], get_degree(Self, n))

GetEdges ==
    /\ nops > 0
    /\ Asked([NoCall EXCEPT !.op = "get_edges"], get_edges(Self))

\* The graph of the scenario A-B(2), A-C(1), B-C(3), C-D(4), with A..D as
\* 1..4, built through the API in that order on a new Graph(d).
ScenarioGraph(d) ==
    LET n1 == add_node(Graph(d), 1).g
        n2 == add_node(n1, 2).g
        n3 == add_node(n2, 3).g
        n4 == add_node(n3, 4).g
        e1 == add_edge(n4, 1, 2, 2).g
        e2 == add_edge(e1, 1, 3, 1).g
        e3 == add_edge(e2, 2, 3, 3).g
    IN add_edge(e3, 3, 4, 4).g

InitQ ==
    /\ \E d \in BOOLEAN : Is(ScenarioGraph(d))
    /\ last = NoCall
    /\ nops = MaxQOps
    /\ run = Idle
    /\ NoNodo

NextQ ==
    \/ AddNode(QLabels)
    \/ RemoveNode(QLabels)
    \/ AddEdge(QLabels)
    \/ RemoveEdge(QLabels)
    \/ SetEdgeWeight(QLabels)
    \/ SetDirected
    \/ Bfs(QLabels)
    \/ Dfs(QLabels)
    \/ DfsRecursive(QLabels)
    \/ Dijkstra(QLabels)
    \/ Route(QLabels)
    \/ GetEdges
    \/ HasEdge(QLabels)
    \/ GetEdgeWeight(QLabels)
    \/ GetNeighbors(QLabels)
    \/ GetDegree(QLabels)

SpecQ == InitQ /\ [][NextQ]_vars

\* As SpecQ, with room for a mutation before the query.
InitQDeep ==
    /\ \E d \in BOOLEAN : Is(ScenarioGraph(d))
    /\ last = NoCall
    /\ nops = MaxDeepOps
    /\ run = Idle
    /\ NoNodo

SpecQDeep == InitQDeep /\ [][NextQ]_vars

\* ================================================================ loops
\* The search calls once more, one loop iteration per step.  run holds the
\* call (op and its arguments a, b, c), the search under way (from source to
\* target: a to b, and for route first origin to pickup (leg 1), then pickup
\* to destination (leg 2)), the locals of its loop in st, the locals path
\* and current of the path reconstruction, and the value returned (result;
\* routed for the dict of route).  A "for"
\* over a neighbor list, which the loop body does not change, is part of
\* the iteration that runs it.
Running(op, a, b, c) ==
    [Idle EXCEPT !.pc = "loop", !.op = op, !.a = a, !.b = b, !.c = c,
                 !.source = a, !.target = b]

\* dijkstra, lines 526-534: the locals before the while loop
DijkstraLocals(g, start_node) ==
    [distances |-> [n \in Range(g.nodes_list) |-> IF n = start_node THEN 0 ELSE INF],
     priority_queue |-> <<<<0, start_node>>>>,
     previous |-> [n \in Range(g.nodes_list) |-> None]]

\* A return statement of the search under way hands value to its caller:
\* the API caller, or shortest_path_three_points (lines 584-616), which
\* fails on a falsy first or second leg, starts the second leg after the
\* first (its start was validated, so dijkstra's guard passes), and builds
\* the result after the second.
Returned(g, r, value) ==
    IF r.op # "route" THEN [r EXCEPT !.pc = "done", !.result = value]
    ELSE IF Falsy(value)
    THEN [r EXCEPT !.pc = "done",
                   !.routed = [success |-> FALSE,
                               error |-> <<"no hay camino", r.source, r.target>>]]
    ELSE IF r.leg = 1
    THEN [r EXCEPT !.pc = "loop", !.leg = 2, !.first = value[1],
                   !.source = r.b, !.target = r.c,
                   !.st = DijkstraLocals(g, r.b),
                   !.path = <<>>, !.current = None]
    ELSE LET full_path == FullPath(r.first, value[1])
         IN [r EXCEPT !.pc = "done",
                      !.routed = [success |-> TRUE,
                                  full_path |-> full_path,
                                  path_origin_to_start |-> r.first,
                                  path_start_to_end |-> value[1],
                                  total_distance |-> TotalDistance(g, full_path, 1)]]

\* The guards of bfs, dfs and dfs_recursive (lines 367-371, 417-421,
\* 464-468), then the locals st before the loop.
Entered(g, r, st) ==
    IF r.a \notin DOMAIN g.nodes
    THEN Returned(g, r, IF Given(r.b) THEN Absent ELSE Some(<<>>))
    ELSE IF Given(r.b) /\ r.b \notin DOMAIN g.nodes THEN Returned(g, r, Absent)
    ELSE [r EXCEPT !.st = st]

\* "path = []" before the reconstruction loop, which starts at current
Walk(r, st, current) ==
    [r EXCEPT !.pc = "walk", !.st = st, !.path = <<>>, !.current = current]

\* parent of bfs and dfs, previous of dijkstra
Pointers(st) == IF "previous" \in DOMAIN st THEN st.previous ELSE st.parent

\* lines 390-393 (438-441, 542-545): one iteration of "while current is not
\* None", and "return path[::-1]" after the last
WalkIteration(g, r) ==
    IF r.current = None THEN Returned(g, r, Some(Reverse(r.path)))
    ELSE [r EXCEPT !.path = Append(@, r.current),
                   !.current = Pointers(r.st)[r.current]]

\* bfs, lines 383-402: one iteration of "while queue"
BfsIteration(g, r) ==
    LET st == r.st
    IN IF st.queue = <<>>
       THEN Returned(g, r, IF ~Given(r.target) THEN Some(st.visit_order) ELSE Absent)
       ELSE LET current == Head(st.queue)
                st1 == [st EXCEPT !.queue = Tail(@), !.visit_order = Append(@, current)]
            IN IF Given(r.target) /\ current = r.target
               THEN Walk(r, st1, current)
               ELSE [r EXCEPT !.st = BfsNeighbors(Neighbors(g, current), 1, current, st1)]

\* dfs, lines 428-451: one iteration of "while stack"
DfsIteration(g, r) ==
    LET st == r.st
    IN IF st.stack = <<>>
       THEN Returned(g, r, IF ~Given(r.target) THEN Some(st.visit_order) ELSE Absent)
       ELSE LET current == st.stack[Len(st.stack)]
                st1 == [st EXCEPT !.stack = SubSeq(@, 1, Len(@) - 1)]
            IN IF current \in st1.visited THEN [r EXCEPT !.st = st1]
               ELSE LET st2 == [st1 EXCEPT !.visited = @ \cup {current},
                                           !.visit_order = Append(@, current)]
                        nbrs == Neighbors(g, current)
                    IN IF Given(r.target) /\ current = r.target
                       THEN Walk(r, st2, current)
                       ELSE [r EXCEPT !.st = DfsNeighbors(nbrs, Len(nbrs), current, st2)]

\* Fault: the least entry is read and stays in the frontier.
heappop_peek(priority_queue, p) == priority_queue

\* heapq.heappop, line 537: the frontier without the entry popped
heappop(priority_queue, p) == PopAt(priority_queue, p)

\* dijkstra, lines 536-561: one iteration of "while priority_queue"
DijkstraIteration(g, r) ==
    LET st == r.st
    IN IF st.priority_queue = <<>>
       THEN Returned(g, r, IF ~Given(r.target) THEN Some(st.distances) ELSE Absent)
       ELSE LET p == MinPos(st.priority_queue)
                current_distance == st.priority_queue[p][1]
                current_node == st.priority_queue[p][2]
                st1 == [st EXCEPT !.priority_queue = heappop(@, p)]
            IN IF Given(r.target) /\ current_node = r.target
               THEN Walk(r, st1, current_node)
               ELSE IF Greater(current_distance, st1.distances[current_node])
               THEN [r EXCEPT !.st = st1]
               ELSE [r EXCEPT !.st = DijkstraNeighbors(Neighbors(g, current_node), 1,
                                         current_node, current_distance, st1)]

\* dfs_recursive, lines 474-508, one step per entry into _dfs_recursive, per
\* iteration of its "for" (which makes the nested call) and per return.
\* st.frames is the call stack, each frame the call's current, the position k
\* of its "for" and whether the body has yet to begin (fresh); st.returned
\* is the value the call that ended last handed back ("none" while a call
\* is running).
Frame(current) == [current |-> current, k |-> 1, fresh |-> TRUE]

DfsRecursiveIteration(g, r) ==
    LET st == r.st
        depth == Len(st.frames)
        top == st.frames[depth]
        nbrs == Neighbors(g, top.current)
        pop(t, value) == [t EXCEPT !.frames = SubSeq(@, 1, Len(@) - 1),
                                   !.returned = value]
    IN IF depth = 0
       \* lines 499-508: the outer call has returned
       THEN IF Given(r.target)
            THEN IF st.returned = "true"
                 THEN Returned(g, r, Some(Reverse(Append(st.path_found, r.source))))
                 ELSE Returned(g, r, Absent)
            ELSE Returned(g, r, Some(st.visit_order))
       ELSE IF top.fresh
       \* lines 477-485
       THEN IF top.current \in st.visited THEN [r EXCEPT !.st = pop(st, "false")]
            ELSE LET st1 == [st EXCEPT !.visited = @ \cup {top.current},
                                       !.visit_order = Append(@, top.current)]
                 IN IF Given(r.target) /\ top.current = r.target
                    THEN [r EXCEPT !.st = pop(st1, "true")]
                    ELSE [r EXCEPT !.st = [st1 EXCEPT !.frames[depth].fresh = FALSE]]
       ELSE IF st.returned = "true"
       \* lines 490-494: the nested call found the target
       THEN [r EXCEPT !.st = pop([st EXCEPT !.path_found = Append(@, nbrs[top.k][1])],
                                 "true")]
       ELSE IF st.returned = "false"
       \* line 490: it did not; the "for" goes on
       THEN [r EXCEPT !.st = [st EXCEPT !.frames[depth].k = @ + 1,
                                        !.returned = "none"]]
       ELSE IF top.k > Len(nbrs)
       \* line 496
       THEN [r EXCEPT !.st = pop(st, "false")]
       ELSE IF nbrs[top.k][1] \notin st.visited
       \* lines 489-490: the nested call
       THEN [r EXCEPT !.st = [st EXCEPT !.frames = Append(@, Frame(nbrs[top.k][1]))]]
       ELSE [r EXCEPT !.st = [st EXCEPT !.frames[depth].k = @ + 1]]

\* A search call begins: its guards and the locals before its loop.
Begun(r) ==
    /\ run' = r
    /\ UNCHANGED <<graphVars, last, nops, nodoVars>>

StartBfs(L) ==
    /\ run.pc = "idle"
    /\ \E s \in L, t \in L \cup {None} :
           Begun(Entered(Self, Running("bfs", s, t, None),
                         [queue |-> <<s>>, visited |-> {s},
                          parent |-> Put(<<>>, s, None), visit_order |-> <<>>]))

StartDfs(L) ==
    /\ run.pc = "idle"
    /\ \E s \in L, t \in L \cup {None} :
           Begun(Entered(Self, Running("dfs", s, t, None),
                         [stack |-> <<s>>, visited |-> {},
                          parent |-> Put(<<>>, s, None), visit_order |-> <<>>]))

StartDfsRecursive(L) ==
    /\ run.pc = "idle"
    /\ \E s \in L, t \in L \cup {None} :
           Begun(Entered(Self, Running("dfs_recursive", s, t, None),
                         [visited |-> {}, visit_order |-> <<>>, path_found |-> <<>>,
                          frames |-> <<Frame(s)>>, returned |-> "none"]))

\* dijkstra, lines 523-534
StartDijkstra(L) ==
    /\ run.pc = "idle"
    /\ \E s \in L, t \in L \cup {None} :
           LET r == Running("dijkstra", s, t, None)
           IN Begun(IF s \notin DOMAIN nodes
                    THEN Returned(Self, r, IF Given(t) THEN Absent ELSE Some(<<>>))
                    ELSE [r EXCEPT !.st = DijkstraLocals(Self, s)])

\* shortest_path_three_points, lines 576-584: the labels are validated and
\* dijkstra(origin, start) begins
StartRoute(L) ==
    /\ run.pc = "idle"
    /\ \E o \in L, s \in L, e \in L :
           LET r == Running("route", o, s, e)
               missing == FirstMissing(Self, <<o, s, e>>)
           IN Begun(IF missing # None
                    THEN [r EXCEPT !.pc = "done",
                                   !.routed = [success |-> FALSE,
                                               error |-> <<"no existe", missing>>]]
                    ELSE [r EXCEPT !.leg = 1, !.st = DijkstraLocals(Self, o)])

\* One iteration of the loop the call is in.
Iterated(r) ==
    /\ run' = r
    /\ UNCHANGED <<graphVars, last, nops, nodoVars>>

BfsStep ==
    /\ run.pc = "loop" /\ run.op = "bfs"
    /\ Iterated(BfsIteration(Self, run))

DfsStep ==
    /\ run.pc = "loop" /\ run.op = "dfs"
    /\ Iterated(DfsIteration(Self, run))

DfsRecursiveStep ==
    /\ run.pc = "loop" /\ run.op = "dfs_recursive"
    /\ Iterated(DfsRecursiveIteration(Self, run))

DijkstraStep ==
    /\ run.pc = "loop" /\ run.op \in {"dijkstra", "route"}
    /\ Iterated(DijkstraIteration(Self, run))

WalkStep ==
    /\ run.pc = "walk"
    /\ Iterated(WalkIteration(Self, run))

StepRun == BfsStep \/ DfsStep \/ DfsRecursiveStep \/ DijkstraStep \/ WalkStep

\* The scenario graph after one more add_edge, as it is or after
\* set_directed: graphs with cycles, self-loops, zero-weight entries and
\* one-way entries of an undirected graph among them.
InitRun ==
    /\ \E d \in BOOLEAN, n1 \in QLabels, n2 \in QLabels, wt \in Weights :
           LET g == add_edge(ScenarioGraph(d), n1, n2, wt).g
           IN \/ Is(g)
              \/ Is(set_directed(g, ~d))
    /\ last = NoCall
    /\ nops = 0
    /\ run = Idle
    /\ NoNodo

NextRun ==
    \/ StartBfs(QLabels)
    \/ StartDfs(QLabels)
    \/ StartDfsRecursive(QLabels)
    \/ StartDijkstra(QLabels)
    \/ StartRoute(QLabels)
    \/ BfsStep
    \/ DfsStep
    \/ DfsRecursiveStep
    \/ DijkstraStep
    \/ WalkStep

\* A call that has begun keeps running: the code is single-threaded and
\* synchronous, with no suspension point.
SpecRun == InitRun /\ [][NextRun]_vars /\ WF_vars(StepRun)

\* ================================================================ Nodo
\* ArbolBinario/Nodo.py.  An argument of a setter is None, one of the Nodo
\* objects, or a value of another type (an int, a str).
Ref(i) == <<"Nodo", i>>
NonNodoValues == {<<"int", 5>>, <<"str", 5>>}
ChildValues == {NoneRef} \cup {Ref(i) : i \in 1..MaxNodos} \cup NonNodoValues

\* isinstance(nodo, Nodo)
isinstance_Nodo(nodo) == nodo[1] = "Nodo"

\* Nodo.__init__
Nodo(valor) == [valor |-> valor, hijo_izquierdo |-> NoneRef, hijo_derecho |-> NoneRef]

\* Each setter gives the object after the call and whether the call raised.
set_hijo_izquierdo(self, nodo) ==
    [self |-> [self EXCEPT !.hijo_izquierdo = nodo], raised |-> FALSE]

set_hijo_derecho(self, nodo) ==
    IF nodo # NoneRef /\ ~isinstance_Nodo(nodo)
    THEN [self |-> self, raised |-> TRUE]
    ELSE [self |-> [self EXCEPT !.hijo_derecho = nodo], raised |-> FALSE]

set_valor(self, valor) ==
    [self |-> [self EXCEPT !.valor = valor], raised |-> FALSE]

es_hoja(self) == self.hijo_izquierdo = NoneRef /\ self.hijo_derecho = NoneRef

\* A call on the Nodo object i: the object after it and the record of the call.
NodoCalled(op, i, nodo, r) ==
    /\ objects' = [objects EXCEPT ![i] = r.self]
    /\ last_nodo' = [op |-> op, self |-> i, nodo |-> nodo, raised |-> r.raised]
    /\ nops' = nops - 1
    /\ UNCHANGED <<graphVars, last, run>>

SetHijoIzquierdo ==
    /\ nops > 0
    /\ \E i \in DOMAIN objects, nodo \in ChildValues :
           NodoCalled("set_hijo_izquierdo", i, nodo, set_hijo_izquierdo(objects[i], nodo))

SetHijoDerecho ==
    /\ nops > 0
    /\ \E i \in DOMAIN objects, nodo \in ChildValues :
           NodoCalled("set_hijo_derecho", i, nodo, set_hijo_derecho(objects[i], nodo))

SetValor ==
    /\ nops > 0
    /\ \E i \in DOMAIN objects, valor \in 1..MaxValor :
           NodoCalled("set_valor", i, <<"int", valor>>, set_valor(objects[i], valor))

\* MaxNodos objects built by Nodo(1), Nodo(2), ...; no graph call is made.
InitNodo ==
    /\ Is(Graph(FALSE))
    /\ last = NoCall
    /\ run = Idle
    /\ nops = MaxNodoOps
    /\ objects = [i \in 1..MaxNodos |-> Nodo(i)]
    /\ last_nodo = NoNodoCall

NextNodo ==
    \/ SetHijoIzquierdo
    \/ SetHijoDerecho
    \/ SetValor

SpecNodo == InitNodo /\ [][NextNodo]_vars

\* ================================================================ claims
Cell(a, b) == adjacency_matrix[nodes[a] + 1][nodes[b] + 1]
HasEntry(a, b, wt) ==
    \E i \in 1..Len(adjacency_list[a]) : adjacency_list[a][i] = <<b, wt>>
Named(a, b) ==
    \E i \in 1..Len(adjacency_list[a]) : adjacency_list[a][i][1] = b
AllWeights == Weights \cup {adjacency_matrix[i][j] : i, j \in 1..Len(adjacency_matrix)}
                      \cup UNION {{adjacency_list[n][i][2] : i \in 1..Len(adjacency_list[n])} :
                                     n \in DOMAIN adjacency_list}
MutationOps == {"add_node", "remove_node", "add_edge", "remove_edge",
                "set_edge_weight", "set_directed"}

\* C1: in every state reached by add_node, remove_node, add_edge, remove_edge,
\* set_edge_weight and set_directed calls, the adjacency list agrees with the
\* matrix: a's list holds an entry (b, w) exactly when matrix[a][b] = w and
\* w is not 0.
C1_ListAgreesWithMatrix ==
    \A a \in DOMAIN nodes, b \in DOMAIN nodes, wt \in AllWeights :
        HasEntry(a, b, wt) <=> (Cell(a, b) = wt /\ wt # 0)

\* C2: the label-to-index mapping is a bijection from the labels onto
\* 0..node_count-1, the index-to-label list is its inverse, and the matrix
\* has node_count rows of node_count columns.
C2_IndexBijection ==
    /\ node_count = Len(nodes_list)
    /\ DOMAIN nodes = Range(nodes_list)
    /\ \A n \in DOMAIN nodes : nodes[n] \in 0..(node_count - 1)
    /\ \A n \in DOMAIN nodes, m \in DOMAIN nodes : nodes[n] = nodes[m] => n = m
    /\ Cardinality(DOMAIN nodes) = node_count
    /\ \A n \in DOMAIN nodes : nodes_list[nodes[n] + 1] = n
    /\ \A i \in 1..Len(nodes_list) : nodes[nodes_list[i]] = i - 1
    /\ Len(adjacency_matrix) = node_count
    /\ \A i \in 1..Len(adjacency_matrix) : Len(adjacency_matrix[i]) = node_count

\* C2 witness: a node was removed while nodes of higher index survive, so
\* indices had to be shifted down.
C2_Witness ==
    /\ last.op = "remove_node" /\ last.ret
    /\ last.idx >= 0 /\ last.idx < node_count

\* C3: whenever the graph is undirected, has_edge and get_edge_weight are
\* symmetric in their two arguments, for all labels.
C3_UndirectedSymmetric ==
    ~directed =>
        \A a \in DOMAIN nodes, b \in DOMAIN nodes :
            /\ has_edge(Self, a, b) = has_edge(Self, b, a)
            /\ get_edge_weight(Self, a, b) = get_edge_weight(Self, b, a)

\* C4: the keys of the adjacency list are exactly the current labels, every
\* neighbor named in a list is a current label, and after remove_node(x) no
\* list names x.
C4_NoDanglingEntries ==
    /\ DOMAIN adjacency_list = DOMAIN nodes
    /\ \A n \in DOMAIN adjacency_list : \A i \in 1..Len(adjacency_list[n]) :
           adjacency_list[n][i][1] \in DOMAIN nodes
    /\ (last.op = "remove_node" /\ last.ret) =>
           /\ last.a \notin DOMAIN adjacency_list
           /\ \A n \in DOMAIN adjacency_list : ~Named(n, last.a)

\* C4 witness: the removed node had degree > 0 and other lists named it.
C4_Witness ==
    /\ last.op = "remove_node" /\ last.ret
    /\ last.deg > 0 /\ last.refs > 0
    /\ node_count > 0

\* C5 as stated: after add_edge(a, b, w) returns true, get_edge_weight(a, b)
\* is w and has_edge(a, b) is true, and the same for (b, a) when undirected,
\* for every weight w.
C5_AddEdgeThenQuery ==
    (last.op = "add_edge" /\ last.ret) =>
        /\ get_edge_weight(Self, last.a, last.b) = Some(last.w)
        /\ has_edge(Self, last.a, last.b)
        /\ ~directed =>
               /\ get_edge_weight(Self, last.b, last.a) = Some(last.w)
               /\ has_edge(Self, last.b, last.a)

\* C5 amended: after add_edge(a, b, w) returns true, get_edge_weight(a, b) is
\* w, and has_edge(a, b) is true exactly when w is not 0; the same for (b, a)
\* when undirected.
C5_AddEdgeThenQueryNonZero ==
    (last.op = "add_edge" /\ last.ret) =>
        /\ get_edge_weight(Self, last.a, last.b) = Some(last.w)
        /\ has_edge(Self, last.a, last.b) <=> (last.w # 0)
        /\ ~directed =>
               /\ get_edge_weight(Self, last.b, last.a) = Some(last.w)
               /\ has_edge(Self, last.b, last.a) <=> (last.w # 0)

\* C5 witness: add_edge with a non-zero weight between two different nodes of
\* an undirected graph.
C5_Witness ==
    /\ last.op = "add_edge" /\ last.ret
    /\ last.w # 0 /\ last.a # last.b /\ ~directed

\* The entries of s other than those naming b.
NotNaming(s, b) == SelectSeq(s, LAMBDA e : e[1] # b)

\* C6: remove_edge(a, b) with both endpoints present returns true; afterwards
\* has_edge(a, b) is false, get_edge_weight(a, b) is 0 and a's list has no
\* entry for b (likewise for (b, a) when undirected); every other matrix cell
\* and list entry, the labels and the mode are unchanged.
C6_RemoveEdgeStep ==
    (last'.op = "remove_edge" /\ _validate_nodes(Self, last'.a, last'.b)) =>
        LET a == last'.a
            b == last'.b
            touched(x, y) == (x = a /\ y = b) \/ (~directed /\ x = b /\ y = a)
        IN /\ last'.ret = TRUE
           /\ ~has_edge(Self', a, b)
           /\ get_edge_weight(Self', a, b) = Some(0)
           /\ \A i \in 1..Len(adjacency_list'[a]) : adjacency_list'[a][i][1] # b
           /\ ~directed => /\ ~has_edge(Self', b, a)
                           /\ get_edge_weight(Self', b, a) = Some(0)
                           /\ \A i \in 1..Len(adjacency_list'[b]) :
                                  adjacency_list'[b][i][1] # a
           /\ UNCHANGED <<nodes, nodes_list, directed, node_count>>
           /\ Len(adjacency_matrix') = Len(adjacency_matrix)
           /\ \A x \in DOMAIN nodes, y \in DOMAIN nodes :
                  ~touched(x, y) => Cell(x, y)' = Cell(x, y)
           /\ DOMAIN adjacency_list' = DOMAIN adjacency_list
           /\ \A x \in DOMAIN adjacency_list :
                  adjacency_list'[x] =
                      IF x = a /\ ~directed /\ x = b
                      THEN NotNaming(adjacency_list[x], b)
                      ELSE IF x = a THEN NotNaming(adjacency_list[x], b)
                      ELSE IF ~directed /\ x = b THEN NotNaming(adjacency_list[x], a)
                      ELSE adjacency_list[x]

C6_RemoveEdge == [][C6_RemoveEdgeStep]_vars

\* C6 witness: remove_edge removed an existing edge between two different
\* nodes of an undirected graph (a's list is shorter than it was).
C6_Witness ==
    /\ last.op = "remove_edge" /\ last.ret /\ ~directed
    /\ last.a # last.b
    /\ last.deg > Len(adjacency_list[last.a])

\* ---------------------------------------------------------------- reference
\* What the searches are measured against, stated on the adjacency list of
\* the current state and independently of the algorithms.
Succ(u) == {adjacency_list[u][i][1] : i \in 1..Len(adjacency_list[u])}

\* The nodes within k hops of s.
RECURSIVE Within(_, _)
Within(s, k) ==
    IF k = 0 THEN {s}
    ELSE LET W == Within(s, k - 1) IN W \cup UNION {Succ(u) : u \in W}

Reachable(s) == Within(s, node_count)

\* The least number of hops from s to t (t reachable from s).
Hops(s, t) == CHOOSE k \in 0..node_count :
                  t \in Within(s, k) /\ \A j \in 0..(k - 1) : t \notin Within(s, j)

Minimum(S) == CHOOSE x \in S : \A y \in S : x <= y

\* One more edge: from the least weights D of walks of at most k edges to
\* those of walks of at most k + 1 edges (INF where there is no walk).
Extend(D) ==
    [n \in DOMAIN nodes |->
        LET via == UNION {{D[u] + adjacency_list[u][i][2] :
                              i \in {j \in 1..Len(adjacency_list[u]) :
                                        adjacency_list[u][j][1] = n}} :
                          u \in {x \in DOMAIN nodes : D[x] # INF}}
            cand == via \cup (IF D[n] # INF THEN {D[n]} ELSE {})
        IN IF cand = {} THEN INF ELSE Minimum(cand)]

\* The least total weight of a walk of at most k edges from s to each node.
RECURSIVE Cheapest(_, _)
Cheapest(s, k) ==
    IF k = 0 THEN [n \in DOMAIN nodes |-> IF n = s THEN 0 ELSE INF]
    ELSE Extend(Cheapest(s, k - 1))

MinWeight(s) == Cheapest(s, node_count)

NonNegativeWeights ==
    \A n \in DOMAIN adjacency_list : \A i \in 1..Len(adjacency_list[n]) :
        adjacency_list[n][i][2] >= 0

\* path runs from s to t along entries of the adjacency list.
IsPath(path, s, t) ==
    /\ Len(path) >= 1 /\ path[1] = s /\ path[Len(path)] = t
    /\ \A i \in 1..(Len(path) - 1) :
           path[i] \in DOMAIN adjacency_list /\ path[i + 1] \in Succ(path[i])

\* The weight of the list entry of u that names v (the least, were there several).
EntryWeight(u, v) ==
    Minimum({adjacency_list[u][i][2] :
                i \in {j \in 1..Len(adjacency_list[u]) : adjacency_list[u][j][1] = v}})

RECURSIVE PathWeight(_, _)
PathWeight(path, i) ==
    IF i >= Len(path) THEN 0
    ELSE EntryWeight(path[i], path[i + 1]) + PathWeight(path, i + 1)

\* C7: for every known start and target, dfs and dfs_recursive return the
\* same result: the same visitation order without a target, the same path
\* (or both absent) with one.
C7_DfsVariantsAgree ==
    (last.op = "dfs" /\ last.a \in DOMAIN nodes
        /\ (last.b = None \/ last.b \in DOMAIN nodes)) =>
        last.ret = dfs_recursive(Self, last.a, last.b)

\* C8: with non-negative list weights and a known start, dijkstra(start)
\* maps every label to its least total path weight from start (infinity if
\* unreachable, 0 for start); dijkstra(start, target) is a path from start
\* to target of that least weight, and is absent exactly when target is
\* unreachable; on the scenario graph dijkstra(A, D) is [A, C, D], weight 5.
C8_DijkstraShortest ==
    /\ (last.op = "dijkstra" /\ last.a \in DOMAIN nodes /\ NonNegativeWeights) =>
           IF last.b = None
           THEN /\ last.ret = Some(MinWeight(last.a))
                /\ last.ret[1][last.a] = 0
                /\ \A n \in DOMAIN nodes :
                       (last.ret[1][n] = INF) <=> (n \notin Reachable(last.a))
           ELSE /\ (last.ret = Absent) <=> (last.b \notin Reachable(last.a))
                /\ last.ret # Absent =>
                       /\ IsPath(last.ret[1], last.a, last.b)
                       /\ PathWeight(last.ret[1], 1) = MinWeight(last.a)[last.b]
    /\ Is(ScenarioGraph(FALSE)) =>
           /\ dijkstra(Self, 1, 4) = Some(<<1, 3, 4>>)
           /\ PathWeight(<<1, 3, 4>>, 1) = 5
           /\ (last.op = "dijkstra" /\ last.a = 1 /\ last.b = 4) =>
                  last.ret = Some(<<1, 3, 4>>)

\* C8 witness: dijkstra returned a path of two or more edges although a
\* path of other weight joins the same two nodes.
C8_Witness ==
    /\ last.op = "dijkstra" /\ last.b # None /\ last.ret # Absent
    /\ Len(last.ret[1]) >= 3
    /\ \E m \in Succ(last.a) :
           /\ m # last.ret[1][2]
           /\ last.b \in Reachable(m)

\* The positions of order are exactly the nodes of S, each once.
EachOnce(order, S) ==
    /\ Range(order) = S
    /\ Len(order) = Cardinality(S)

\* C9: for every known start, bfs(start, target) is a path from start to
\* target with the least possible number of edges, and absent exactly when
\* target is unreachable; bfs(start) lists every reachable node once, start
\* first, in non-decreasing hop distance.
C9_BfsShortest ==
    (last.op = "bfs" /\ last.a \in DOMAIN nodes) =>
        IF last.b = None
        THEN /\ last.ret # Absent
             /\ EachOnce(last.ret[1], Reachable(last.a))
             /\ last.ret[1][1] = last.a
             /\ \A i \in 1..(Len(last.ret[1]) - 1) :
                    Hops(last.a, last.ret[1][i]) <= Hops(last.a, last.ret[1][i + 1])
        ELSE /\ (last.ret = Absent) <=> (last.b \notin Reachable(last.a))
             /\ last.ret # Absent =>
                    /\ IsPath(last.ret[1], last.a, last.b)
                    /\ Len(last.ret[1]) - 1 = Hops(last.a, last.b)

\* C9 witness: bfs returned a path of two or more edges to a target.
C9_Witness ==
    /\ last.op = "bfs" /\ last.b # None /\ last.ret # Absent
    /\ Len(last.ret[1]) >= 3

\* C10: whenever route(origin, pickup, destination) succeeds, total_distance
\* is the distance dijkstra reports from origin to pickup plus the distance
\* it reports from pickup to destination.
C10_RouteTotalIsSumOfLegs ==
    (last.op = "route" /\ last.ret.success /\ NonNegativeWeights) =>
        last.ret.total_distance =
            dijkstra(Self, last.a, None)[1][last.b]
                + dijkstra(Self, last.b, None)[1][last.c]

\* The positions of path that hold node x.
Occurrences(path, x) == {i \in 1..Len(path) : path[i] = x}

\* C11: whenever route(origin, pickup, destination) succeeds, full_path is
\* path_origin_to_start followed by path_start_to_end without its first
\* element; it starts at origin, ends at destination and holds pickup exactly
\* once (origin = pickup, pickup = destination, origin = destination included).
C11_RouteFullPath ==
    (last.op = "route" /\ last.ret.success) =>
        LET r == last.ret
        IN /\ r.full_path = r.path_origin_to_start \o Tail(r.path_start_to_end)
           /\ r.full_path # <<>>
           /\ r.full_path[1] = last.a
           /\ r.full_path[Len(r.full_path)] = last.c
           /\ Cardinality(Occurrences(r.full_path, last.b)) = 1

\* C11 witness: a successful round trip, origin = destination and pickup
\* another node, so that each leg has an edge.
C11_Witness ==
    /\ last.op = "route" /\ last.ret.success
    /\ last.a = last.c /\ last.a # last.b
    /\ Len(last.ret.full_path) >= 3

\* C12: route(origin, pickup, destination) succeeds exactly when the three
\* labels exist, pickup is reachable from origin and destination from pickup;
\* otherwise it returns a failure whose error names the first missing label
\* in the order origin, pickup, destination or, when all exist, the two
\* endpoints of the first leg without a path; the graph is unchanged.
C12_RouteOutcomeStep ==
    (last'.op = "route") =>
        LET r == last'.ret
            o == last'.a
            p == last'.b
            e == last'.c
            missing == {x \in {o, p, e} : x \notin DOMAIN nodes}
            leg1 == p \in Reachable(o)
            leg2 == e \in Reachable(p)
        IN /\ UNCHANGED graphVars
           /\ r.success \in BOOLEAN
           /\ r.success <=> (missing = {} /\ leg1 /\ leg2)
           /\ ~r.success =>
                 r.error = IF o \in missing THEN <<"no existe", o>>
                           ELSE IF p \in missing THEN <<"no existe", p>>
                           ELSE IF e \in missing THEN <<"no existe", e>>
                           ELSE IF ~leg1 THEN <<"no hay camino", o, p>>
                           ELSE <<"no hay camino", p, e>>

\* C12 over every call (each call changes nops).
C12_RouteOutcome == [][C12_RouteOutcomeStep]_nops

\* C12 witness: the three labels exist and the first leg has a path, the
\* second has none, and route names the second leg.
C12_Witness ==
    /\ last.op = "route" /\ ~last.ret.success
    /\ {last.a, last.b, last.c} \subseteq DOMAIN nodes
    /\ last.a # last.b
    /\ last.b \in Reachable(last.a)
    /\ last.c \notin Reachable(last.b)
    /\ last.ret.error = <<"no hay camino", last.b, last.c>>

\* The positions of edges whose triple joins a and b, in either order.
TriplesFor(edges, a, b) ==
    {i \in 1..Len(edges) : {edges[i][1], edges[i][2]} = {a, b}}

\* C13: for an undirected graph get_edges() returns each edge exactly once:
\* for every pair of labels joined by an adjacency-list entry, self-loops
\* included, exactly one triple for the pair is in the result, and the result
\* never holds both (a, b, w) and (b, a, w).
C13_GetEdgesEachOnce ==
    (last.op = "get_edges" /\ ~directed) =>
        /\ \A a \in DOMAIN nodes, b \in DOMAIN nodes :
               (Named(a, b) \/ Named(b, a)) =>
                   Cardinality(TriplesFor(last.ret, a, b)) = 1
        /\ \A i, j \in 1..Len(last.ret) :
               (i # j) => last.ret[i] # <<last.ret[j][2], last.ret[j][1], last.ret[j][3]>>

\* C14: a mutation that returns false leaves labels, node_count, matrix,
\* list and mode unchanged; add_node returns false exactly when the label
\* exists, remove_node exactly when it is absent, add_edge, remove_edge and
\* set_edge_weight exactly when an endpoint is absent; a second add_node(x) or
\* remove_node(x) in a row changes nothing.
C14_FalseMeansUnchangedStep ==
    LET op == last'.op
        a == last'.a
        b == last'.b
        failed == ~last'.ret
    IN /\ (op \in MutationOps /\ failed) => UNCHANGED graphVars
       /\ (op = "add_node") => (failed <=> a \in DOMAIN nodes)
       /\ (op = "remove_node") => (failed <=> a \notin DOMAIN nodes)
       /\ (op \in {"add_edge", "remove_edge", "set_edge_weight"}) =>
              (failed <=> (a \notin DOMAIN nodes \/ b \notin DOMAIN nodes))
       /\ (op \in {"add_node", "remove_node"} /\ last.op = op /\ last.a = a) =>
              (failed /\ UNCHANGED graphVars)

C14_FalseMeansUnchanged == [][C14_FalseMeansUnchangedStep]_vars

\* C14 witness: add_node returned false for a label that has neighbors.
C14_Witness ==
    /\ last.op = "add_node" /\ ~last.ret
    /\ last.a \in DOMAIN nodes
    /\ adjacency_list[last.a] # <<>>

SearchOps == {"bfs", "dfs", "dfs_recursive", "dijkstra"}
LookupOps == {"has_edge", "get_edge_weight", "get_neighbors", "get_degree"}

\* C15: for a label that is not in the graph has_edge returns false,
\* get_edge_weight None, get_neighbors an empty list and get_degree 0; bfs,
\* dfs, dfs_recursive and dijkstra with an unknown start return absent when a
\* target is given and an empty collection otherwise, and with a known start
\* and an unknown target return absent; none of these calls changes the graph.
C15_UnknownLabelStep ==
    LET op == last'.op
        a == last'.a
        b == last'.b
        r == last'.ret
        known(x) == x \in DOMAIN nodes
    IN /\ (op \in SearchOps \cup LookupOps) => UNCHANGED graphVars
       /\ (op = "has_edge" /\ (~known(a) \/ ~known(b))) => r = FALSE
       /\ (op = "get_edge_weight" /\ (~known(a) \/ ~known(b))) => r = Absent
       /\ (op = "get_neighbors" /\ ~known(a)) => r = <<>>
       /\ (op = "get_degree" /\ ~known(a)) => r = 0
       /\ (op \in SearchOps /\ ~known(a)) =>
              r = IF Given(b) THEN Absent ELSE Some(<<>>)
       /\ (op \in SearchOps /\ known(a) /\ Given(b) /\ ~known(b)) => r = Absent

C16_RemoveNodeFrameStep ==
    (last'.op = "remove_node" /\ last'.ret) =>
        LET x == last'.a
            survivors == DOMAIN nodes \ {x}
        IN /\ DOMAIN nodes' = survivors
           /\ nodes_list' = SelectSeq(nodes_list, LAMBDA n : n # x)
           /\ \A n \in survivors :
                  nodes'[n] = IF nodes[n] > nodes[x] THEN nodes[n] - 1 ELSE nodes[n]
           /\ \A a \in survivors, b \in survivors :
                  get_edge_weight(Self', a, b) = get_edge_weight(Self, a, b)
           /\ DOMAIN adjacency_list' = survivors
           /\ \A a \in survivors :
                  adjacency_list'[a] = NotNaming(adjacency_list[a], x)
           /\ directed' = directed
           /\ node_count' = node_count - 1

AgreeOn(a, b) ==
    IF Cell(a, b) = 0 THEN ~Named(a, b)
    ELSE /\ Cardinality(Mentions(Self, a, b)) = 1
         /\ HasEntry(a, b, Cell(a, b))

\* a's list after its entry for b, where it is, takes weight wt.
Reweighted(a, b, wt) ==
    [k \in 1..Len(adjacency_list[a]) |->
        IF adjacency_list[a][k][1] = b THEN <<b, wt>> ELSE adjacency_list[a][k]]

\* C17: for an existing edge a-b on which matrix and list agree and every new
\* weight w, after set_edge_weight(a, b, w) returns true get_edge_weight(a, b)
\* is w and a's list has exactly one entry for b, at its previous position,
\* with weight w (the same for b's entry for a when undirected); all other
\* cells and entries are unchanged.
C17_SetEdgeWeightStep ==
    LET a == last'.a
        b == last'.b
        wt == last'.w
        touched == IF directed THEN {<<a, b>>} ELSE {<<a, b>>, <<b, a>>}
    IN (/\ last'.op = "set_edge_weight" /\ last'.ret
        /\ Cell(a, b) # 0
        /\ \A p \in touched : AgreeOn(p[1], p[2]))
       =>
       /\ \A p \in touched :
              /\ get_edge_weight(Self', p[1], p[2]) = Some(wt)
              /\ Cardinality(Mentions(Self', p[1], p[2])) = 1
              /\ adjacency_list'[p[1]] = Reweighted(p[1], p[2], wt)
       /\ \A x \in DOMAIN nodes, y \in DOMAIN nodes :
              (<<x, y>> \notin touched) =>
                  get_edge_weight(Self', x, y) = get_edge_weight(Self, x, y)
       /\ \A x \in DOMAIN nodes :
              (x \notin {p[1] : p \in touched}) =>
                  adjacency_list'[x] = adjacency_list[x]
       /\ UNCHANGED <<nodes, nodes_list, directed, node_count>>

\* C17 over every call (each call changes nops).
C17_SetEdgeWeight == [][C17_SetEdgeWeightStep]_nops

\* C18: immediately after set_directed(d), for either d, the adjacency list
\* is a resync of the matrix: a's list has exactly one entry (b, w) if
\* matrix[index(a)][index(b)] = w is non-zero and no entry for b otherwise,
\* neighbors are in increasing index order, and the matrix and the label
\* mappings are unchanged.
C18_SetDirectedResyncStep ==
    (last'.op = "set_directed") =>
        /\ UNCHANGED <<nodes, nodes_list, adjacency_matrix, node_count>>
        /\ directed' = (last'.w = 1)
        /\ DOMAIN adjacency_list' = DOMAIN nodes
        /\ \A a \in DOMAIN nodes, b \in DOMAIN nodes :
               LET at == Mentions(Self', a, b)
               IN IF Cell(a, b) = 0 THEN at = {}
                  ELSE /\ Cardinality(at) = 1
                       /\ \A k \in at : adjacency_list'[a][k] = <<b, Cell(a, b)>>
        /\ \A a \in DOMAIN nodes :
               \A j \in 1..Len(adjacency_list'[a]), k \in 1..Len(adjacency_list'[a]) :
                   (j < k) => nodes[adjacency_list'[a][j][1]] < nodes[adjacency_list'[a][k][1]]

C19_AddEdgeFirstWriteWinsStep ==
    LET a == last'.a
        b == last'.b
        w2 == last'.w
    IN (/\ last'.op = "add_edge"
        /\ a \in DOMAIN nodes /\ b \in DOMAIN nodes
        /\ Named(a, b)
        /\ \A k \in Mentions(Self, a, b) : adjacency_list[a][k][2] # w2)
       =>
       /\ last'.ret
       /\ get_edge_weight(Self', a, b) = Some(w2)
       /\ ~directed => get_edge_weight(Self', b, a) = Some(w2)
       /\ adjacency_list'[a] = adjacency_list[a]
       /\ (~directed /\ Named(b, a)) => adjacency_list'[b] = adjacency_list[b]

C19_AddEdgeFirstWriteWins == [][C19_AddEdgeFirstWriteWinsStep]_vars

\* C19 witness: add_edge returned true on a listed pair, the cell holds the
\* new weight and a's list, as long as before, holds the old one.
C19_Witness ==
    /\ last.op = "add_edge" /\ last.ret
    /\ Cell(last.a, last.b) = last.w
    /\ last.deg = Len(adjacency_list[last.a])
    /\ \E w1 \in AllWeights : w1 # last.w /\ HasEntry(last.a, last.b, w1)

\* C20: after any sequence of add_node, remove_node, add_edge, remove_edge,
\* set_edge_weight and set_directed calls no neighbor list has two entries
\* naming the same neighbor.
C20_NoDuplicateNeighbors ==
    \A a \in DOMAIN adjacency_list :
        \A j \in 1..Len(adjacency_list[a]), k \in 1..Len(adjacency_list[a]) :
            (j # k) => adjacency_list[a][j][1] # adjacency_list[a][k][1]

\* C20 witness: add_edge was called again on a pair of different nodes that
\* the list already named, and the list is as long as it was.
C20_Witness ==
    /\ last.op = "add_edge" /\ last.ret
    /\ last.a # last.b
    /\ Named(last.a, last.b)
    /\ last.deg = Len(adjacency_list[last.a])

\* C21: on every graph reachable through the mutation API with non-negative
\* weights (cycles, self-loops and zero-weight edges included) bfs, dfs,
\* dfs_recursive, dijkstra and route terminate for every start and target: a
\* call that has begun returns.
C21_SearchesTerminate == (run.pc # "idle") ~> (run.pc = "done")

\* C21 witness: route has returned a path on an undirected graph (every
\* edge a cycle of two entries) that has a zero-weight entry.
C21_Witness ==
    /\ run.pc = "done" /\ run.op = "route" /\ run.routed.success
    /\ ~directed
    /\ \E x \in DOMAIN nodes, y \in DOMAIN nodes : HasEntry(x, y, 0)
    /\ Len(run.routed.full_path) >= 3

\* C22: a call of set_hijo_izquierdo or set_hijo_derecho whose argument is
\* neither a Nodo nor None raises, and the child reference (the whole object)
\* is as it was before the call.
C22_NonNodoChildRaisesStep ==
    LET call == last_nodo'
    IN (/\ call.op \in {"set_hijo_izquierdo", "set_hijo_derecho"}
        /\ call.nodo # NoneRef /\ ~isinstance_Nodo(call.nodo))
       => (call.raised /\ objects' = objects)

C22_NonNodoChildRaises == [][C22_NonNodoChildRaisesStep]_nops

\* C22, for set_hijo_derecho alone, which checks its argument.
C22_HijoDerechoRaisesStep ==
    LET call == last_nodo'
    IN (/\ call.op = "set_hijo_derecho"
        /\ call.nodo # NoneRef /\ ~isinstance_Nodo(call.nodo))
       => (call.raised /\ objects' = objects)

C22_HijoDerechoRaises == [][C22_HijoDerechoRaisesStep]_nops

\* C22 failing state: set_hijo_izquierdo(5) returned without raising and the
\* left child of the object is the int.
C22_HijoIzquierdoStored ==
    /\ last_nodo.op = "set_hijo_izquierdo" /\ ~last_nodo.raised
    /\ ~isinstance_Nodo(last_nodo.nodo) /\ last_nodo.nodo # NoneRef
    /\ objects[last_nodo.self].hijo_izquierdo = last_nodo.nodo
    /\ ~es_hoja(objects[last_nodo.self])

\* C23: every path returned by bfs, dfs, dfs_recursive or dijkstra for a known
\* start and a known target begins with start, ends with target, repeats no
\* node, and each consecutive pair (u, v) of it is an entry of u's adjacency
\* list.
C23_PathsAreSimple ==
    (/\ last.op \in SearchOps
     /\ last.a \in DOMAIN nodes /\ last.b \in DOMAIN nodes
     /\ last.ret # Absent)
    => LET path == last.ret[1]
       IN /\ IsPath(path, last.a, last.b)
          /\ Cardinality(Range(path)) = Len(path)

\* C23 witness: the iterative dfs returned a path of three nodes or more that
\* the recursive dfs does not return; the parent of a node on it was recorded
\* when the node was first pushed.
C23_Witness ==
    /\ last.op = "dfs"
    /\ last.a \in DOMAIN nodes /\ last.b \in DOMAIN nodes
    /\ last.ret # Absent
    /\ Len(last.ret[1]) >= 3
    /\ dfs_recursive(Self, last.a, last.b) # last.ret
====
